---- MODULE Spec2Model ----
(***************************************************************************)
(* State-machine model of src/transfer.rs: the typestate Transfer wrapper  *)
(* around a native libusb transfer descriptor and its backing Vec<u8>.     *)
(***************************************************************************)
EXTENDS Integers, Sequences, FiniteSets, TLC

VARIABLES
    phase,      \* the variant of enum Transfer that currently owns Internals
    inner,      \* struct Internals: native descriptor, max_iso_packets, buffer
    last,       \* history: the arguments of the most recent fill_* call
    pre,        \* history: the operation that led here and the Vec before it
    setup,      \* SetupSpec only: the control setup being serialized
    packet,     \* SetupSpec only: the 8-byte region write_setup_packet wrote
    call,       \* ValueSpec only: the constructor under test and its argument
    result      \* ValueSpec only: what the constructor returned

vars == <<phase, inner, last, pre, setup, packet, call, result>>

----------------------------------------------------------------------------
(* Bounds of the model *)

MaxLen == 2          \* read lengths 0..MaxLen, and 64
MaxData == 2         \* payloads and control data of up to MaxData bytes
NumAddrs == 2        \* heap addresses the allocator may hand out

----------------------------------------------------------------------------
(* Program constants *)

CLEAR_TRANSFER_FLAGS == 0
FILL_WITH_ZERO == 0
CONTROL_SETUP_SIZE == 8

LIBUSB_ENDPOINT_DIR_MASK == 128
LIBUSB_ENDPOINT_IN == 128
LIBUSB_ENDPOINT_OUT == 0
LIBUSB_TRANSFER_TYPE_CONTROL == 0
LIBUSB_TRANSFER_TYPE_BULK == 2
LIBUSB_TRANSFER_TYPE_INTERRUPT == 3

C_INT_MAX == 2147483647
U16_MAX == 65535
NULL == 0            \* ptr::null_mut()
DANGLING == 1        \* the well-aligned non-null pointer of an unallocated Vec<u8>
MIN_NON_ZERO_CAP == 8

Max(a, b) == IF a >= b THEN a ELSE b
Min(a, b) == IF a <= b THEN a ELSE b

Ok(v) == [ok |-> TRUE, val |-> v]
Err(e) == [ok |-> FALSE, err |-> e]

\* the values of the successful results
ValsOf(results) == {r.val : r \in {x \in results : x.ok}}

\* `n as c_int` for a usize n below 2^32: the low 32 bits as two's complement
AsCInt(n) ==
    IF n <= C_INT_MAX THEN n ELSE ((n - C_INT_MAX) - C_INT_MAX) - 2

\* `n as u16`
AsU16(n) == n % 65536

\* Integers of more than 31 bits (usize, u128, c_uint) are kept as two
\* base-65536 digits, [hi, lo] with lo in 0..65535; hi is not bounded.
Wide(n) == [hi |-> n \div 65536, lo |-> n % 65536]

WideLe(a, b) == a.hi < b.hi \/ (a.hi = b.hi /\ a.lo <= b.lo)

\* the plain integer of a wide number below 2^31
WideVal(a) == a.hi * 65536 + a.lo

C_UINT_MAX == [hi |-> 65535, lo |-> 65535]

\* a c_int::try_from that keeps the low 31 bits instead of failing
c_int_try_from_wrapping(n) == Ok((n.hi % 32768) * 65536 + n.lo)

\* c_int::try_from of a usize or u128
c_int_try_from(n) ==
    IF WideLe(n, Wide(C_INT_MAX)) THEN Ok(WideVal(n))
    ELSE Err("TryFromIntError")

\* a c_uint::try_from with the bound of c_int
c_uint_try_from_as_c_int(n) ==
    IF WideLe(n, Wide(C_INT_MAX)) THEN Ok(n) ELSE Err("TryFromIntError")

\* c_uint::try_from of a u128
c_uint_try_from(n) ==
    IF WideLe(n, C_UINT_MAX) THEN Ok(n) ELSE Err("TryFromIntError")

\* u16::to_be_bytes, the high byte first
to_be_bytes(v) == <<(v \div 256) % 256, v % 256>>

\* u16::to_le_bytes
to_le_bytes(v) == <<v % 256, (v \div 256) % 256>>

\* endpoint & mask, for a single-bit mask
BitAnd(byte, mask) == ((byte \div mask) % 2) * mask

----------------------------------------------------------------------------
(* Validated value types *)

\* impl TryFrom<usize> for ReadLength, n a wide number
ReadLength_try_from(n) ==
    LET r == c_int_try_from(n)
    IN IF r.ok THEN Ok(r.val) ELSE Err("TooBig")

ReadLength_as_c_int(l) == l

\* `self.0 as usize`: the c_int sign-extended (a negative one gets the
\* high digit of its two's complement, -1 standing for all ones)
ReadLength_as_usize(l) == Wide(l)

\* the body of impl TryFrom<&[u8]> for WriteData, which looks at the slice
\* only through data.len(): len is that length as a wide number
WriteData_try_from_len(len, data) ==
    IF c_int_try_from(len).ok THEN Ok(data) ELSE Err("TooBig")

\* impl TryFrom<&[u8]> for WriteData
WriteData_try_from(data) == WriteData_try_from_len(Wide(Len(data)), data)

WriteData_length(data) == Len(data)

WriteData_length_as_c_int(data) == AsCInt(Len(data))

\* what an operation yields in place of a slice when it panics
PANIC == <<-1>>
Panicked(sl) == \E i \in DOMAIN sl : sl[i] < 0

\* <[u8]>::copy_from_slice: the two slices must have the same length
copy_from_slice(dst, src) ==
    IF ~Panicked(dst) /\ Len(dst) = Len(src) THEN src ELSE PANIC

\* copy_data that returns without copying
copy_data_skipped(data, buffer) == buffer

\* WriteData::copy_data
copy_data(data, buffer) ==
    IF WriteData_length(data) > 0 THEN copy_from_slice(buffer, data) ELSE buffer

\* a Timeout is its c_uint, a wide number
Timeout_as_c_uint(t) == t

Timeout_none == Wide(0)

\* ms: u32, a wide number
Timeout_from_millis(ms) == ms

\* an as_millis that rounds a started millisecond up
Duration_as_millis_ceil(d) ==
    LET t == (d.secs % 65536) * 1000 + (d.nanos + 999999) \div 1000000
    IN [hi |-> (d.secs \div 65536) * 1000 + t \div 65536, lo |-> t % 65536]

\* Duration::as_millis of [secs, nanos]: secs * 1000 + nanos / 1_000_000 as a
\* u128, computed digit by digit
Duration_as_millis(d) ==
    LET t == (d.secs % 65536) * 1000 + d.nanos \div 1000000
    IN [hi |-> (d.secs \div 65536) * 1000 + t \div 65536, lo |-> t % 65536]

\* impl TryFrom<Duration> for Timeout
Timeout_try_from(d) ==
    LET r == c_uint_try_from(Duration_as_millis(d))
    IN IF r.ok THEN Ok(r.val) ELSE Err("InvalidParam")

\* impl TryFrom<u8> for ReadEndpoint
ReadEndpoint_try_from(endpoint) ==
    IF BitAnd(endpoint, LIBUSB_ENDPOINT_DIR_MASK) = LIBUSB_ENDPOINT_IN
    THEN Ok(endpoint) ELSE Err("InvalidParam")

ReadEndpoint_as_u8(e) == e

\* a WriteEndpoint::try_from without the direction check
WriteEndpoint_try_from_any(endpoint) == Ok(endpoint)

\* impl TryFrom<u8> for WriteEndpoint
WriteEndpoint_try_from(endpoint) ==
    IF BitAnd(endpoint, LIBUSB_ENDPOINT_DIR_MASK) = LIBUSB_ENDPOINT_OUT
    THEN Ok(endpoint) ELSE Err("InvalidParam")

WriteEndpoint_as_u8(e) == e

----------------------------------------------------------------------------
(* Control setup encoders *)

\* crate::fields: bit 7 direction, bits 6-5 type, bits 4-0 recipient
DirectionBits(d) == IF d = "In" THEN 128 ELSE 0
RequestTypeBits(t) ==
    CASE t = "Standard" -> 0 [] t = "Class" -> 32 [] t = "Vendor" -> 64
RecipientBits(r) ==
    CASE r = "Device" -> 0 [] r = "Interface" -> 1 [] r = "Endpoint" -> 2
      [] r = "Other" -> 3
request_type(direction, rtype, recipient) ==
    DirectionBits(direction) + RequestTypeBits(rtype) + RecipientBits(recipient)

\* crate::fields::TransferType::as_raw
TransferType_as_raw(tt) ==
    CASE tt = "Control" -> LIBUSB_TRANSFER_TYPE_CONTROL
      [] tt = "Bulk" -> LIBUSB_TRANSFER_TYPE_BULK
      [] tt = "Interrupt" -> LIBUSB_TRANSFER_TYPE_INTERRUPT

\* a length check that forgets the 8 header bytes
is_valid_control_data_length_no_header(data_length) ==
    data_length <= U16_MAX

is_valid_control_data_length(data_length) ==
    IF data_length > U16_MAX THEN FALSE
    ELSE data_length + CONTROL_SETUP_SIZE <= U16_MAX

ControlReadSetup_new(recipient, rtype, request, value, index, data_length) ==
    IF is_valid_control_data_length(data_length)
    THEN Ok([request_type |-> request_type("In", rtype, recipient),
             request |-> request, value |-> value, index |-> index,
             data_length |-> data_length])
    ELSE Err("TooBig")

ControlReadSetup_total_length(s) == s.data_length + CONTROL_SETUP_SIZE

ControlReadSetup_total_length_as_c_int(s) ==
    AsCInt(ControlReadSetup_total_length(s))

\* buffer[0], buffer[1], [2..=3], [4..=5], [6..=7]: each index panics on a
\* region that is too short
ControlReadSetup_write_setup_packet(s, buffer) ==
    IF Panicked(buffer) \/ Len(buffer) < CONTROL_SETUP_SIZE THEN PANIC
    ELSE
    <<s.request_type, s.request>>
        \o copy_from_slice(SubSeq(buffer, 3, 4), to_le_bytes(s.value))
        \o copy_from_slice(SubSeq(buffer, 5, 6), to_le_bytes(s.index))
        \o copy_from_slice(SubSeq(buffer, 7, 8), to_le_bytes(s.data_length))
        \o SubSeq(buffer, 9, Len(buffer))

ControlWriteSetup_new(recipient, rtype, request, value, index, data) ==
    IF is_valid_control_data_length(Len(data))
    THEN Ok([request_type |-> request_type("Out", rtype, recipient),
             request |-> request, value |-> value, index |-> index,
             data |-> data])
    ELSE Err("TooBig")

ControlWriteSetup_data_length(s) == AsU16(Len(s.data))

ControlWriteSetup_total_length(s) == Len(s.data) + CONTROL_SETUP_SIZE

ControlWriteSetup_total_length_as_c_int(s) ==
    AsCInt(ControlWriteSetup_total_length(s))

ControlWriteSetup_write_setup_packet(s, buffer) ==
    IF Panicked(buffer) \/ Len(buffer) < CONTROL_SETUP_SIZE THEN PANIC
    ELSE
    <<s.request_type, s.request>>
        \o copy_from_slice(SubSeq(buffer, 3, 4), to_le_bytes(s.value))
        \o copy_from_slice(SubSeq(buffer, 5, 6), to_le_bytes(s.index))
        \o copy_from_slice(SubSeq(buffer, 7, 8),
                           to_le_bytes(ControlWriteSetup_data_length(s)))
        \o SubSeq(buffer, 9, Len(buffer))

\* ControlWriteSetup::copy_body_data
copy_body_data(s, buffer) ==
    IF ControlWriteSetup_data_length(s) > 0
    THEN copy_from_slice(buffer, s.data) ELSE buffer

----------------------------------------------------------------------------
(* Vec<u8>: ptr, len, cap and the cap bytes of the allocation.  Bytes at    *)
(* indices above len stay in memory; they are outside the logical content. *)

HeapAddrs == (DANGLING + 1)..(DANGLING + NumAddrs)

\* What the allocator decides on one call: where the block lands (realloc may
\* extend in place or move).  JUNK stands for whatever a fresh, uninitialized
\* byte happens to hold.
JUNK == 204
Allocs == [ptr : HeapAddrs]

\* the allocator is consulted only when the Vec has to grow
AllocsFor(b, new_len) ==
    IF new_len <= b.cap THEN {[ptr |-> b.ptr]} ELSE Allocs

Vec_new == [ptr |-> DANGLING, len |-> 0, cap |-> 0, mem |-> <<>>]

Vec_as_mut_ptr(b) == b.ptr

\* the logical content, &buffer[..]
Vec_slice(b) == SubSeq(b.mem, 1, b.len)

\* Vec::reserve: does nothing when the capacity already suffices; otherwise
\* the block is reallocated (old bytes copied over) with the amortized
\* capacity max(2 * cap, required, 8) of RawVec<u8>
Vec_reserve(b, additional, a) ==
    IF b.cap - b.len >= additional THEN b
    ELSE LET required == b.len + additional
             newcap == Max(Max(2 * b.cap, required), MIN_NON_ZERO_CAP)
         IN [ptr |-> a.ptr, len |-> b.len, cap |-> newcap,
             mem |-> [i \in 1..newcap |->
                        IF i <= b.cap THEN b.mem[i] ELSE JUNK]]

\* a truncate that also gives the capacity back
Vec_truncate_releasing(b, new_len) ==
    IF new_len > b.len THEN b
    ELSE [b EXCEPT !.len = new_len, !.cap = new_len,
                   !.mem = SubSeq(b.mem, 1, new_len)]

Vec_truncate(b, new_len) ==
    IF new_len > b.len THEN b ELSE [b EXCEPT !.len = new_len]

\* a resize that grows the length without writing `value` (set_len)
Vec_resize_unfilled(b, new_len, value, a) ==
    IF new_len > b.len
    THEN [Vec_reserve(b, new_len - b.len, a) EXCEPT !.len = new_len]
    ELSE Vec_truncate(b, new_len)

\* Vec::resize(new_len, value)
Vec_resize(b, new_len, value, a) ==
    IF new_len > b.len
    THEN LET r == Vec_reserve(b, new_len - b.len, a)
         IN [r EXCEPT !.len = new_len,
                      !.mem = [i \in 1..r.cap |->
                                 IF i > b.len /\ i <= new_len
                                 THEN value ELSE r.mem[i]]]
    ELSE Vec_truncate(b, new_len)

\* Vec::shrink_to_fit
Vec_shrink_to_fit(b, a) ==
    IF b.cap > b.len
    THEN IF b.len = 0
         THEN [ptr |-> DANGLING, len |-> 0, cap |-> 0, mem |-> <<>>]
         ELSE [ptr |-> a.ptr, len |-> b.len, cap |-> b.len,
               mem |-> SubSeq(b.mem, 1, b.len)]
    ELSE b

\* &mut buffer[lo..hi] (0-based, hi exclusive): the range must lie within
\* the logical content
Vec_index_mut(b, lo, hi) ==
    IF lo <= hi /\ hi <= b.len THEN SubSeq(b.mem, lo + 1, hi) ELSE PANIC

\* buffer[lo..hi] = bytes (0-based, hi exclusive), as the &mut slice writes do
Vec_write(b, lo, hi, bytes) ==
    [b EXCEPT !.mem = SubSeq(b.mem, 1, lo) \o bytes
                        \o SubSeq(b.mem, hi + 1, Len(b.mem))]

----------------------------------------------------------------------------
(* struct Internals and its mutators.  Besides the three fields of the      *)
(* struct the record carries `log`: the native writes and buffer steps of  *)
(* the operation in progress, in the order the code performs them.         *)

NativeFields ==
    {"dev_handle", "flags", "endpoint", "transfer_type", "timeout", "status",
     "length", "actual_length", "callback", "user_data", "buffer",
     "num_iso_packets"}

\* libusb_alloc_transfer: a zeroed struct libusb_transfer
libusb_alloc_transfer(iso_packets) ==
    [dev_handle |-> NULL, flags |-> 0, endpoint |-> 0, transfer_type |-> 0,
     timeout |-> Wide(0), status |-> 0, length |-> 0, actual_length |-> 0,
     callback |-> NULL, user_data |-> NULL, buffer |-> NULL,
     num_iso_packets |-> 0]

\* one step of the operation in progress
note(in, step) == [in EXCEPT !.log = Append(@, step)]

\* handle.as_mut().<field> = v
write_field(in, field, v) ==
    [in EXCEPT !.handle[field] = v, !.log = Append(@, field)]

\* a public operation starts: nothing done yet
begin(in) == [in EXCEPT !.log = <<>>]

\* an index or copy_from_slice panicked: the routine stops where it is
panic(in, buf) == note([in EXCEPT !.buffer = buf], "panic")

\* Internals::new_unfilled: the allocated descriptor with flags cleared
Internals_new_unfilled(max_iso_packets) ==
    write_field([handle |-> libusb_alloc_transfer(max_iso_packets),
                 max_iso_packets |-> max_iso_packets,
                 buffer |-> Vec_new,
                 log |-> <<>>],
                "flags", CLEAR_TRANSFER_FLAGS)

\* set_device_handle that also stores the handle as user_data
set_device_handle_and_user_data(in, dh) ==
    write_field(write_field(in, "dev_handle", dh), "user_data", dh)

set_device_handle(in, dh) == write_field(in, "dev_handle", dh)

\* set_endpoint storing the endpoint number without its direction bit
set_endpoint_number_only(in, endpoint) ==
    write_field(in, "endpoint", endpoint % LIBUSB_ENDPOINT_DIR_MASK)

set_endpoint(in, endpoint) == write_field(in, "endpoint", endpoint)

set_timeout(in, t) == write_field(in, "timeout", Timeout_as_c_uint(t))

set_transfer_type(in, tt) ==
    write_field(in, "transfer_type", TransferType_as_raw(tt))

\* publishing the capacity where the length belongs
publish_capacity(in, buf, length) ==
    write_field(write_field([in EXCEPT !.buffer = buf], "length", buf.cap),
                "buffer", Vec_as_mut_ptr(buf))

\* transfer.length = ...; transfer.buffer = self.buffer.as_mut_ptr()
publish(in, buf, length) ==
    write_field(write_field([in EXCEPT !.buffer = buf], "length", length),
                "buffer", Vec_as_mut_ptr(buf))

\* setup_read taking the pointer before the resize
setup_read_pointer_first(in, length, a) ==
    LET p == Vec_as_mut_ptr(in.buffer)
        b1 == Vec_resize(in.buffer, WideVal(ReadLength_as_usize(length)),
                         FILL_WITH_ZERO, a)
    IN write_field(
           write_field([note(in, "resize") EXCEPT !.buffer = b1],
                       "length", ReadLength_as_c_int(length)),
           "buffer", p)

setup_read(in, length, a) ==
    LET b1 == Vec_resize(in.buffer, WideVal(ReadLength_as_usize(length)),
                         FILL_WITH_ZERO, a)
    IN publish(note(in, "resize"), b1, ReadLength_as_c_int(length))

setup_write(in, data, a) ==
    LET n == WriteData_length(data)
        b1 == Vec_resize(in.buffer, n, FILL_WITH_ZERO, a)
        w == copy_data(data, Vec_index_mut(b1, 0, n))
        in1 == note(in, "resize")
    IN IF Panicked(w) THEN panic(in1, b1)
       ELSE publish(note(in1, "copy_data"), Vec_write(b1, 0, n, w),
                    WriteData_length_as_c_int(data))

setup_control_read(in, s, a) ==
    LET b1 == Vec_resize(in.buffer, ControlReadSetup_total_length(s),
                         FILL_WITH_ZERO, a)
        w == ControlReadSetup_write_setup_packet(
                 s, Vec_index_mut(b1, 0, CONTROL_SETUP_SIZE))
        in1 == note(in, "resize")
    IN IF Panicked(w) THEN panic(in1, b1)
       ELSE publish(note(in1, "write_setup_packet"),
                    Vec_write(b1, 0, CONTROL_SETUP_SIZE, w),
                    ControlReadSetup_total_length_as_c_int(s))

\* setup_control_write resizing to the payload alone, without the header
setup_control_write_no_header_room(in, s, a) ==
    LET b1 == Vec_resize(in.buffer, Len(s.data), FILL_WITH_ZERO, a)
        w == ControlWriteSetup_write_setup_packet(
                 s, Vec_index_mut(b1, 0, CONTROL_SETUP_SIZE))
        in1 == note(in, "resize")
    IN IF Panicked(w) THEN panic(in1, b1)
       ELSE LET b2 == Vec_write(b1, 0, CONTROL_SETUP_SIZE, w)
                v == copy_body_data(
                         s, Vec_index_mut(b2, CONTROL_SETUP_SIZE, b2.len))
                in2 == note(in1, "write_setup_packet")
            IN IF Panicked(v) THEN panic(in2, b2)
               ELSE publish(note(in2, "copy_body_data"),
                            Vec_write(b2, CONTROL_SETUP_SIZE, b2.len, v),
                            ControlWriteSetup_total_length_as_c_int(s))

setup_control_write(in, s, a) ==
    LET b1 == Vec_resize(in.buffer, ControlWriteSetup_total_length(s),
                         FILL_WITH_ZERO, a)
        w == ControlWriteSetup_write_setup_packet(
                 s, Vec_index_mut(b1, 0, CONTROL_SETUP_SIZE))
        in1 == note(in, "resize")
    IN IF Panicked(w) THEN panic(in1, b1)
       ELSE LET b2 == Vec_write(b1, 0, CONTROL_SETUP_SIZE, w)
                v == copy_body_data(
                         s, Vec_index_mut(b2, CONTROL_SETUP_SIZE, b2.len))
                in2 == note(in1, "write_setup_packet")
            IN IF Panicked(v) THEN panic(in2, b2)
               ELSE publish(note(in2, "copy_body_data"),
                            Vec_write(b2, CONTROL_SETUP_SIZE, b2.len, v),
                            ControlWriteSetup_total_length_as_c_int(s))

\* shrink without shrink_to_fit
shrink_truncate_only(in, a) ==
    write_field(
        write_field([note(in, "truncate") EXCEPT
                         !.buffer = Vec_truncate(in.buffer, 0)],
                    "length", 0),
        "buffer", NULL)

shrink(in, a) ==
    LET b1 == Vec_shrink_to_fit(Vec_truncate(in.buffer, 0), a)
    IN write_field(
           write_field([note(note(in, "truncate"), "shrink_to_fit") EXCEPT
                            !.buffer = b1],
                       "length", 0),
           "buffer", NULL)

----------------------------------------------------------------------------
(* Inputs the callers draw from *)

ReadPhases == {"ReadBulk", "ReadControl", "ReadInterrupt"}
WritePhases == {"WriteBulk", "WriteControl", "WriteInterrupt"}
Phases == {"Unfilled"} \cup ReadPhases \cup WritePhases

DeviceHandles == {16}
IsoPacketCounts == {4}
EndpointBytes == {1, 129}
ReadEndpoints ==
    {e \in EndpointBytes : ReadEndpoint_try_from(e).ok}
WriteEndpoints ==
    {e \in EndpointBytes : WriteEndpoint_try_from(e).ok}

LengthInputs == (0..MaxLen) \cup {64}
ReadLengths == ValsOf({ReadLength_try_from(Wide(n)) : n \in LengthInputs})

\* caller data: the first k bytes of AA BB AA BB ..., for k in 0..MaxData
PatternByte(i) == IF i % 2 = 1 THEN 170 ELSE 187
Pattern(k) == [i \in 1..k |-> PatternByte(i)]
DataInputs == {Pattern(k) : k \in 0..MaxData}
Payloads == {d \in DataInputs : WriteData_try_from(d).ok}

Timeouts == {Timeout_none, Timeout_from_millis(Wide(1000))}

ControlReadSetups ==
    ValsOf({ControlReadSetup_new("Device", "Vendor", 1, 4660, 0, n) :
                n \in {0, MaxData, U16_MAX}})

ControlWriteSetups ==
    ValsOf({ControlWriteSetup_new("Device", "Vendor", 1, 4660, 0, d) :
                d \in {Pattern(0), Pattern(MaxData)}})

NoSetup == [request_type |-> 0, request |-> 0, value |-> 0, index |-> 0]
NoFill == [op |-> "none"]
NoCall == [fn |-> "none", arg |-> 0]
NoResult == [ok |-> FALSE, err |-> "not called"]

\* history record of one operation taking Internals `old` to `new`: the
\* operation, the one before it, how the logical length moved, whether the
\* new length fitted the old capacity, whether the block moved, whether a
\* byte the operation newly exposed was non-zero in memory before it, and
\* whether kind, endpoint and timeout were all replaced by other values
History(op, old, new) ==
    LET b == old.buffer
        n == new.buffer.len
    IN [op |-> op, prevop |-> pre.op,
        resize |-> IF n > b.len THEN "grow"
                   ELSE IF n < b.len THEN "cut" ELSE "same",
        fits |-> n <= b.cap,
        moved |-> new.buffer.ptr # b.ptr,
        stale |-> \E i \in (b.len + 1)..Min(n, b.cap) : b.mem[i] # 0,
        overwrote |-> /\ new.handle.transfer_type # old.handle.transfer_type
                      /\ new.handle.endpoint # old.handle.endpoint
                      /\ new.handle.timeout # old.handle.timeout]

----------------------------------------------------------------------------
(* Operations *)

Init ==
    /\ phase = "Unfilled"
    /\ \E n \in IsoPacketCounts : inner = Internals_new_unfilled(n)
    /\ last = NoFill
    /\ pre = [op |-> "new", prevop |-> "new", resize |-> "same",
              fits |-> TRUE, moved |-> FALSE, stale |-> FALSE,
              overwrote |-> FALSE]
    /\ setup = NoSetup
    /\ packet = <<>>
    /\ call = NoCall
    /\ result = NoResult

fill_bulk_read(dh, endpoint, length, timeout, a) ==
    /\ phase = "Unfilled"
    /\ inner' = set_timeout(
                  setup_read(
                    set_endpoint(
                      set_device_handle(set_transfer_type(begin(inner), "Bulk"), dh),
                      endpoint),
                    length, a),
                  timeout)
    /\ phase' = "ReadBulk"
    /\ last' = [op |-> "fill_bulk_read", dh |-> dh, endpoint |-> endpoint,
                length |-> length, timeout |-> timeout]
    /\ pre' = History("fill", inner, inner')
    /\ UNCHANGED <<setup, packet, call, result>>

fill_bulk_write(dh, endpoint, data, timeout, a) ==
    /\ phase = "Unfilled"
    /\ inner' = set_timeout(
                  setup_write(
                    set_endpoint(
                      set_device_handle(set_transfer_type(begin(inner), "Bulk"), dh),
                      endpoint),
                    data, a),
                  timeout)
    /\ phase' = "WriteBulk"
    /\ last' = [op |-> "fill_bulk_write", dh |-> dh, endpoint |-> endpoint,
                data |-> data, timeout |-> timeout]
    /\ pre' = History("fill", inner, inner')
    /\ UNCHANGED <<setup, packet, call, result>>

\* fill_interrupt_read returning the bulk variant
fill_interrupt_read_as_bulk(dh, endpoint, length, timeout, a) ==
    /\ phase = "Unfilled"
    /\ inner' = set_timeout(
                  setup_read(
                    set_endpoint(
                      set_device_handle(
                        set_transfer_type(begin(inner), "Interrupt"), dh),
                      endpoint),
                    length, a),
                  timeout)
    /\ phase' = "ReadBulk"
    /\ last' = [op |-> "fill_interrupt_read", dh |-> dh,
                endpoint |-> endpoint, length |-> length,
                timeout |-> timeout]
    /\ pre' = History("fill", inner, inner')
    /\ UNCHANGED <<setup, packet, call, result>>

fill_interrupt_read(dh, endpoint, length, timeout, a) ==
    /\ phase = "Unfilled"
    /\ inner' = set_timeout(
                  setup_read(
                    set_endpoint(
                      set_device_handle(
                        set_transfer_type(begin(inner), "Interrupt"), dh),
                      endpoint),
                    length, a),
                  timeout)
    /\ phase' = "ReadInterrupt"
    /\ last' = [op |-> "fill_interrupt_read", dh |-> dh,
                endpoint |-> endpoint, length |-> length,
                timeout |-> timeout]
    /\ pre' = History("fill", inner, inner')
    /\ UNCHANGED <<setup, packet, call, result>>

fill_interrupt_write(dh, endpoint, data, timeout, a) ==
    /\ phase = "Unfilled"
    /\ inner' = set_timeout(
                  setup_write(
                    set_endpoint(
                      set_device_handle(
                        set_transfer_type(begin(inner), "Interrupt"), dh),
                      endpoint),
                    data, a),
                  timeout)
    /\ phase' = "WriteInterrupt"
    /\ last' = [op |-> "fill_interrupt_write", dh |-> dh,
                endpoint |-> endpoint, data |-> data, timeout |-> timeout]
    /\ pre' = History("fill", inner, inner')
    /\ UNCHANGED <<setup, packet, call, result>>

\* fill_control_read that sets up the buffer before kind, handle and endpoint
fill_control_read_setup_first(dh, s, timeout, a) ==
    /\ phase = "Unfilled"
    /\ inner' = set_timeout(
                  set_endpoint(
                    set_device_handle(
                      set_transfer_type(
                        setup_control_read(begin(inner), s, a), "Control"),
                      dh),
                    0),
                  timeout)
    /\ phase' = "ReadControl"
    /\ last' = [op |-> "fill_control_read", dh |-> dh, setup |-> s,
                timeout |-> timeout]
    /\ pre' = History("fill", inner, inner')
    /\ UNCHANGED <<setup, packet, call, result>>

fill_control_read(dh, s, timeout, a) ==
    /\ phase = "Unfilled"
    /\ inner' = set_timeout(
                  setup_control_read(
                    set_endpoint(
                      set_device_handle(
                        set_transfer_type(begin(inner), "Control"), dh),
                      0),
                    s, a),
                  timeout)
    /\ phase' = "ReadControl"
    /\ last' = [op |-> "fill_control_read", dh |-> dh, setup |-> s,
                timeout |-> timeout]
    /\ pre' = History("fill", inner, inner')
    /\ UNCHANGED <<setup, packet, call, result>>

fill_control_write(dh, s, timeout, a) ==
    /\ phase = "Unfilled"
    /\ inner' = set_timeout(
                  setup_control_write(
                    set_endpoint(
                      set_device_handle(
                        set_transfer_type(begin(inner), "Control"), dh),
                      0),
                    s, a),
                  timeout)
    /\ phase' = "WriteControl"
    /\ last' = [op |-> "fill_control_write", dh |-> dh, setup |-> s,
                timeout |-> timeout]
    /\ pre' = History("fill", inner, inner')
    /\ UNCHANGED <<setup, packet, call, result>>

\* a clear that also withdraws the published length
ReadTransfer_clear_unpublishing ==
    /\ phase \in ReadPhases
    /\ phase' = "Unfilled"
    /\ inner' = write_field(begin(inner), "length", 0)
    /\ pre' = History("clear", inner, inner')
    /\ UNCHANGED <<last, setup, packet, call, result>>

\* ReadTransfer::clear
ReadTransfer_clear ==
    /\ phase \in ReadPhases
    /\ phase' = "Unfilled"
    /\ inner' = begin(inner)
    /\ pre' = History("clear", inner, inner')
    /\ UNCHANGED <<last, setup, packet, call, result>>

\* ReadTransfer::clear_and_shrink
ReadTransfer_clear_and_shrink(a) ==
    /\ phase \in ReadPhases
    /\ inner' = shrink(begin(inner), a)
    /\ phase' = "Unfilled"
    /\ pre' = History("clear_and_shrink", inner, inner')
    /\ UNCHANGED <<last, setup, packet, call, result>>

\* WriteTransfer::clear
WriteTransfer_clear ==
    /\ phase \in WritePhases
    /\ phase' = "Unfilled"
    /\ inner' = begin(inner)
    /\ pre' = History("clear", inner, inner')
    /\ UNCHANGED <<last, setup, packet, call, result>>

\* WriteTransfer::clear_and_shrink
WriteTransfer_clear_and_shrink(a) ==
    /\ phase \in WritePhases
    /\ inner' = shrink(begin(inner), a)
    /\ phase' = "Unfilled"
    /\ pre' = History("clear_and_shrink", inner, inner')
    /\ UNCHANGED <<last, setup, packet, call, result>>

Next ==
    \/ \E dh \in DeviceHandles, e \in ReadEndpoints, n \in ReadLengths,
          t \in Timeouts : \E a \in AllocsFor(inner.buffer, n) :
              fill_bulk_read(dh, e, n, t, a)
    \/ \E dh \in DeviceHandles, e \in WriteEndpoints, d \in Payloads,
          t \in Timeouts : \E a \in AllocsFor(inner.buffer, Len(d)) :
              fill_bulk_write(dh, e, d, t, a)
    \/ \E dh \in DeviceHandles, e \in ReadEndpoints, n \in ReadLengths,
          t \in Timeouts : \E a \in AllocsFor(inner.buffer, n) :
              fill_interrupt_read(dh, e, n, t, a)
    \/ \E dh \in DeviceHandles, e \in WriteEndpoints, d \in Payloads,
          t \in Timeouts : \E a \in AllocsFor(inner.buffer, Len(d)) :
              fill_interrupt_write(dh, e, d, t, a)
    \/ \E dh \in DeviceHandles, s \in ControlReadSetups, t \in Timeouts :
          \E a \in AllocsFor(inner.buffer, ControlReadSetup_total_length(s)) :
              fill_control_read(dh, s, t, a)
    \/ \E dh \in DeviceHandles, s \in ControlWriteSetups, t \in Timeouts :
          \E a \in AllocsFor(inner.buffer, ControlWriteSetup_total_length(s)) :
              fill_control_write(dh, s, t, a)
    \/ ReadTransfer_clear
    \/ \E a \in AllocsFor(inner.buffer, 0) : ReadTransfer_clear_and_shrink(a)
    \/ WriteTransfer_clear
    \/ \E a \in AllocsFor(inner.buffer, 0) : WriteTransfer_clear_and_shrink(a)

Spec == Init /\ [][Next]_vars

----------------------------------------------------------------------------
(* Destruction.  LifeSpec is Spec with the transfer value dropped at any    *)
(* point; a dropped value has been moved out of reach, so nothing follows. *)

\* libusb_free_transfer(self.handle.as_ptr()): the descriptor is gone
libusb_free_transfer(in) ==
    note([in EXCEPT !.handle = [f \in NativeFields |-> "freed"]],
         "libusb_free_transfer")

\* drop glue of the field `buffer: Vec<u8>`: the block is deallocated
Vec_drop(in) ==
    note([in EXCEPT !.buffer = [ptr |-> "freed", len |-> 0, cap |-> 0,
                                mem |-> <<>>]],
         "dealloc")

\* a drop that frees the buffer before the descriptor
Internals_drop_buffer_first ==
    /\ phase \in Phases
    /\ phase' = "Dropped"
    /\ inner' = libusb_free_transfer(Vec_drop(begin(inner)))
    /\ pre' = [op |-> "drop", prevop |-> pre.op, resize |-> "cut",
               fits |-> TRUE, moved |-> FALSE, stale |-> FALSE,
               overwrote |-> FALSE]
    /\ UNCHANGED <<last, setup, packet, call, result>>

\* impl Drop for Internals, then the drop of its fields
Internals_drop ==
    /\ phase \in Phases
    /\ phase' = "Dropped"
    /\ inner' = Vec_drop(libusb_free_transfer(begin(inner)))
    /\ pre' = [op |-> "drop", prevop |-> pre.op, resize |-> "cut",
               fits |-> TRUE, moved |-> FALSE, stale |-> FALSE,
               overwrote |-> FALSE]
    /\ UNCHANGED <<last, setup, packet, call, result>>

LifeNext == Next \/ Internals_drop

LifeSpec == Init /\ [][LifeNext]_vars

----------------------------------------------------------------------------
(* What a fill is expected to leave behind, stated from its arguments *)

FilledPhases == ReadPhases \cup WritePhases

PhaseOfFill(op) ==
    CASE op = "fill_bulk_read" -> "ReadBulk"
      [] op = "fill_bulk_write" -> "WriteBulk"
      [] op = "fill_interrupt_read" -> "ReadInterrupt"
      [] op = "fill_interrupt_write" -> "WriteInterrupt"
      [] op = "fill_control_read" -> "ReadControl"
      [] op = "fill_control_write" -> "WriteControl"

KindOfPhase(p) ==
    CASE p \in {"ReadBulk", "WriteBulk"} -> "Bulk"
      [] p \in {"ReadInterrupt", "WriteInterrupt"} -> "Interrupt"
      [] p \in {"ReadControl", "WriteControl"} -> "Control"

IsControl(p) == p \in {"ReadControl", "WriteControl"}

Zeros(n) == [i \in 1..n |-> 0]

\* the 8 header bytes of the wire format, data length dl
ExpectedHeader(s, dl) ==
    <<s.request_type, s.request,
      s.value % 256, s.value \div 256,
      s.index % 256, s.index \div 256,
      dl % 256, dl \div 256>>

ExpectedLength(f) ==
    CASE f.op \in {"fill_bulk_read", "fill_interrupt_read"} -> f.length
      [] f.op \in {"fill_bulk_write", "fill_interrupt_write"} -> Len(f.data)
      [] f.op = "fill_control_read" -> 8 + f.setup.data_length
      [] f.op = "fill_control_write" -> 8 + Len(f.setup.data)

\* content that depends on the fill's arguments alone
ExpectedContent(f) ==
    CASE f.op \in {"fill_bulk_read", "fill_interrupt_read"} -> Zeros(f.length)
      [] f.op \in {"fill_bulk_write", "fill_interrupt_write"} -> f.data
      [] f.op = "fill_control_read" ->
            ExpectedHeader(f.setup, f.setup.data_length)
                \o Zeros(f.setup.data_length)
      [] f.op = "fill_control_write" ->
            ExpectedHeader(f.setup, Len(f.setup.data)) \o f.setup.data

----------------------------------------------------------------------------
(* Claims *)

\* C1: a transfer starts Unfilled with an empty buffer; there is always
\* exactly one phase; from Unfilled every step is one of the six fills and
\* lands in the phase of that fill; from a Read*/Write* phase every step is a
\* clear or clear_and_shrink and lands in Unfilled, so a filled transfer is
\* never filled again before it is cleared.
C1_PhaseMachine ==
    /\ [](phase \in Phases)
    /\ [](pre.op = "new" => phase = "Unfilled" /\ inner.buffer.len = 0)
    /\ [][/\ phase = "Unfilled" =>
                /\ pre'.op = "fill"
                /\ phase' \in FilledPhases
                /\ phase' = PhaseOfFill(last'.op)
          /\ phase \in FilledPhases =>
                /\ pre'.op \in {"clear", "clear_and_shrink"}
                /\ phase' = "Unfilled"]_vars

\* reached: a transfer filled, cleared and filled again
C1_Witness ==
    /\ phase = "WriteControl"
    /\ pre.op = "fill"
    /\ pre.prevop = "clear"

\* C2: in every filled phase the native kind, endpoint and timeout are those
\* of the most recent fill: kind by phase, endpoint the validated byte (0 for
\* control), timeout the supplied one.
C2_NativeFieldsOfLastFill ==
    phase \in FilledPhases =>
        /\ last.op # "none"
        /\ phase = PhaseOfFill(last.op)
        /\ inner.handle.transfer_type = TransferType_as_raw(KindOfPhase(phase))
        /\ inner.handle.endpoint =
              (IF IsControl(phase) THEN 0 ELSE last.endpoint)
        /\ inner.handle.timeout = last.timeout
        /\ (phase = "ReadBulk" =>
              /\ inner.handle.transfer_type = LIBUSB_TRANSFER_TYPE_BULK
              /\ inner.handle.length = last.length)

\* reached: fill_bulk_read of 64 bytes on endpoint 0x81 with timeout 1000 ms,
\* over a descriptor whose kind, endpoint and timeout all held other values
C2_Witness ==
    /\ phase = "ReadBulk"
    /\ pre.op = "fill" /\ pre.prevop = "clear" /\ pre.overwrote
    /\ inner.handle.transfer_type = LIBUSB_TRANSFER_TYPE_BULK
    /\ inner.handle.endpoint = 129
    /\ inner.handle.timeout = Wide(1000)
    /\ inner.handle.length = 64

\* C3: in every filled phase the native buffer pointer is the Vec's current
\* start address and the native length is the Vec's logical length, which
\* lies within the live allocation.
C3_PointerAndLength ==
    phase \in FilledPhases =>
        /\ inner.handle.buffer = Vec_as_mut_ptr(inner.buffer)
        /\ inner.handle.length = inner.buffer.len
        /\ inner.buffer.len <= inner.buffer.cap
        /\ Len(inner.buffer.mem) = inner.buffer.cap
        /\ (inner.buffer.cap > 0 => inner.buffer.ptr \in HeapAddrs)

\* reached: a refill that had to reallocate and the block moved
C3_Witness ==
    /\ phase \in FilledPhases
    /\ pre.op = "fill" /\ pre.prevop = "clear"
    /\ ~pre.fits /\ pre.moved

\* C4: after every fill the length published to the native resource, and the
\* Vec's logical length, is the requested read length, the payload length,
\* or 8 + data length for control.
C4_PublishedLength ==
    phase \in FilledPhases =>
        /\ inner.handle.length = ExpectedLength(last)
        /\ inner.buffer.len = ExpectedLength(last)

\* reached: a control read fill that cut a longer buffer down to its header
C4_Witness ==
    /\ phase = "ReadControl"
    /\ pre.op = "fill" /\ pre.resize = "cut"
    /\ inner.handle.length = 8

\* C5: without clear_and_shrink, a fill reallocates only when the requested
\* length exceeds the current capacity; when it fits, the block's address,
\* capacity and the bytes outside the new content's reach stay as they were.
\* clear() leaves the Vec alone, and capacity never decreases across fills.
C5_NoReallocWhenFits ==
    [][LET b == inner.buffer
           c == inner'.buffer
       IN /\ (pre'.op = "fill" /\ c.len <= b.cap) =>
                 /\ c.ptr = b.ptr
                 /\ c.cap = b.cap
          /\ (pre'.op = "fill" /\ (c.cap # b.cap \/ c.ptr # b.ptr)) =>
                 c.len > b.cap
          /\ pre'.op = "clear" => c = b
          /\ pre'.op \in {"fill", "clear"} => c.cap >= b.cap]_vars

\* reached: after clear(), a fill shorter than the previous one that fitted
\* the capacity left by it
C5_Witness ==
    /\ phase \in FilledPhases
    /\ pre.op = "fill" /\ pre.prevop = "clear"
    /\ pre.resize = "cut" /\ pre.fits /\ ~pre.moved
    /\ inner.buffer.cap > MIN_NON_ZERO_CAP

\* C6: clear_and_shrink leaves an Unfilled transfer with an empty Vec of
\* capacity 0 and a null native pointer with native length 0; the content a
\* following fill produces is a function of that fill's arguments alone.
C6_ShrinkResets ==
    /\ pre.op = "clear_and_shrink" =>
          /\ phase = "Unfilled"
          /\ inner.buffer.len = 0
          /\ inner.buffer.cap = 0
          /\ inner.handle.buffer = NULL
          /\ inner.handle.length = 0
    /\ (pre.op = "fill" /\ pre.prevop = "clear_and_shrink") =>
          /\ ~pre.fits \/ inner.buffer.len = 0
          /\ Vec_slice(inner.buffer) = ExpectedContent(last)

\* reached: a read fill of MaxLen bytes right after clear_and_shrink
C6_Witness ==
    /\ phase = "ReadInterrupt"
    /\ pre.op = "fill" /\ pre.prevop = "clear_and_shrink"
    /\ inner.buffer.len = MaxLen

\* C7: right after fill_bulk_read / fill_interrupt_read the whole buffer is
\* zero, and the payload region (bytes 8..) of a ReadControl buffer is zero,
\* whatever earlier fills left in the buffer.
C7_ReadBufferIsZero ==
    /\ phase \in {"ReadBulk", "ReadInterrupt"} =>
          \A i \in 1..inner.buffer.len : inner.buffer.mem[i] = 0
    /\ phase = "ReadControl" =>
          \A i \in (CONTROL_SETUP_SIZE + 1)..inner.buffer.len :
              inner.buffer.mem[i] = 0

\* C8: when a read fill grows the logical length from L to N, every byte at
\* index L <= i < N is zero afterwards, whatever memory held there, and the
\* bytes below L are the ones that were there.
C8_ZeroFillNewlyExposed ==
    [][(phase = "Unfilled" /\ phase' \in {"ReadBulk", "ReadInterrupt"}
            /\ inner.buffer.len < inner'.buffer.len) =>
          LET L == inner.buffer.len
              N == inner'.buffer.len
          IN /\ \A i \in (L + 1)..N : inner'.buffer.mem[i] = FILL_WITH_ZERO
             /\ \A i \in 1..L : inner'.buffer.mem[i] = inner.buffer.mem[i]]_vars

\* reached: a read fill that grew over bytes that were non-zero in memory
C8_Witness ==
    /\ phase \in {"ReadBulk", "ReadInterrupt"}
    /\ pre.op = "fill" /\ pre.resize = "grow" /\ pre.stale
    /\ inner.buffer.len = MaxLen
    /\ inner.buffer.mem[1] # 0

\* C9: after a bulk/interrupt write fill the buffer is the payload, byte for
\* byte; after a control write fill it is the 8-byte header followed by the
\* payload; the setup (Device, Vendor, 0x01, 0x1234, 0, [0xAA, 0xBB]) has
\* total length 10 and gives [0x40, 1, 0x34, 0x12, 0, 0, 2, 0, 0xAA, 0xBB].
C9_WriteBufferIsData ==
    /\ phase \in {"WriteBulk", "WriteInterrupt"} =>
          Vec_slice(inner.buffer) = last.data
    /\ phase = "WriteControl" =>
          /\ Vec_slice(inner.buffer) =
                ExpectedHeader(last.setup, Len(last.setup.data))
                    \o last.setup.data
          /\ (last.setup.value = 4660 /\ last.setup.request = 1
                  /\ last.setup.index = 0 /\ last.setup.data = <<170, 187>>) =>
                /\ ControlWriteSetup_total_length(last.setup) = 10
                /\ Vec_slice(inner.buffer) =
                      <<last.setup.request_type, 1, 52, 18, 0, 0, 2, 0,
                        170, 187>>

\* reached: the scenario's control write, over a buffer that held other data
C9_Witness ==
    /\ phase = "WriteControl"
    /\ pre.op = "fill" /\ pre.prevop = "clear" /\ pre.fits
    /\ Vec_slice(inner.buffer) = <<64, 1, 52, 18, 0, 0, 2, 0, 170, 187>>

\* whether the operation that led here performed `step`
LogHas(step) == \E i \in DOMAIN inner.log : inner.log[i] = step

\* C15: every fill, from whatever Unfilled state and with whatever validated
\* arguments, ends in its filled phase with a buffer of the expected length,
\* all its steps done and without a panic: no slice index out of range, no
\* copy_from_slice between slices of different lengths.
C15_FillsAreTotal ==
    /\ ~LogHas("panic")
    /\ pre.op = "fill" =>
          /\ phase = PhaseOfFill(last.op)
          /\ inner.buffer.len = ExpectedLength(last)
          /\ LogHas("timeout")

\* reached: a control write with an empty payload, filled over a buffer that
\* an earlier fill left longer
C15_Witness ==
    /\ phase = "WriteControl"
    /\ last.setup.data = <<>>
    /\ pre.op = "fill" /\ pre.resize = "cut"
    /\ LogHas("copy_body_data")
    /\ inner.buffer.len = CONTROL_SETUP_SIZE

\* C16: while the transfer lives, no operation releases the descriptor or
\* the buffer, and it can be dropped in every phase; the drop releases the
\* descriptor once, then frees the buffer, and nothing can follow it.
C16_ReleasedOnceAtDrop ==
    /\ phase \in Phases =>
          /\ ~LogHas("libusb_free_transfer")
          /\ ~LogHas("dealloc")
          /\ ENABLED Internals_drop
    /\ phase = "Dropped" =>
          /\ inner.log = <<"libusb_free_transfer", "dealloc">>
          /\ ~ENABLED LifeNext

\* reached: a transfer dropped while filled for a bulk write
C16_Witness ==
    /\ phase = "Dropped"
    /\ pre.prevop = "fill"
    /\ last.op = "fill_bulk_write"
    /\ inner.log[1] = "libusb_free_transfer"

\* the six native fields the fills and shrink write
FilledFields ==
    {"dev_handle", "endpoint", "transfer_type", "timeout", "buffer", "length"}

\* C17 as stated: the native fields written are among device handle,
\* endpoint, kind, timeout, buffer pointer and length, in every operation
\* from construction on.
C17_WritesOnlyTheSix ==
    \A i \in DOMAIN inner.log :
        inner.log[i] \in NativeFields => inner.log[i] \in FilledFields

\* C17 amended: the native fields written are those six and flags; flags is
\* written by construction alone, to CLEAR_TRANSFER_FLAGS; every native
\* field other than the six, and max_iso_packets, keeps its value from
\* construction on.
C17_WritesTheSixAndFlags ==
    /\ \A i \in DOMAIN inner.log :
          inner.log[i] \in NativeFields =>
              inner.log[i] \in FilledFields \cup {"flags"}
    /\ LogHas("flags") => pre.op = "new"
    /\ pre.op = "new" => inner.log = <<"flags">>
    /\ inner.handle.flags = CLEAR_TRANSFER_FLAGS
    /\ \A f \in NativeFields \ FilledFields :
          inner.handle[f] = libusb_alloc_transfer(inner.max_iso_packets)[f]
    /\ inner.max_iso_packets \in IsoPacketCounts

\* reached: a fill after construction, fill and clear_and_shrink has written
\* all six fields, to values other than those of construction
C17_Witness ==
    /\ pre.op = "fill" /\ pre.prevop = "clear_and_shrink"
    /\ \A f \in FilledFields : LogHas(f)
    /\ \A f \in FilledFields \ {"transfer_type"} :
          inner.handle[f] # libusb_alloc_transfer(inner.max_iso_packets)[f]

\* the steps of a fill, in order
ExpectedSteps(f) ==
    <<"transfer_type", "dev_handle", "endpoint", "resize">>
        \o (CASE f.op \in {"fill_bulk_read", "fill_interrupt_read"} -> <<>>
              [] f.op \in {"fill_bulk_write", "fill_interrupt_write"} ->
                    <<"copy_data">>
              [] f.op = "fill_control_read" -> <<"write_setup_packet">>
              [] f.op = "fill_control_write" ->
                    <<"write_setup_packet", "copy_body_data">>)
        \o <<"length", "buffer", "timeout">>

\* C18: a fill writes kind, device handle and endpoint (0 for control), then
\* resizes the buffer, writes its content, publishes length and pointer, and
\* last writes the timeout; the filled phase is there after all of it.
C18_FillOrder ==
    pre.op = "fill" =>
        /\ inner.log = ExpectedSteps(last)
        /\ phase = PhaseOfFill(last.op)
        /\ IsControl(phase) => inner.handle.endpoint = 0

\* reached: a control read filled over a previous write's buffer
C18_Witness ==
    /\ phase = "ReadControl"
    /\ pre.op = "fill" /\ pre.prevop = "clear"
    /\ inner.log = <<"transfer_type", "dev_handle", "endpoint", "resize",
                     "write_setup_packet", "length", "buffer", "timeout">>
    /\ inner.handle.length = CONTROL_SETUP_SIZE + MaxData

\* C19 as stated: after clear() the descriptor still publishes a non-zero
\* length and a pointer to the previous data.
C19_ClearKeepsNonZeroLength ==
    pre.op = "clear" =>
        /\ inner.handle.length > 0
        /\ inner.handle.buffer = inner.buffer.ptr
        /\ inner.buffer.len > 0

\* C19 amended: clear() changes the phase to Unfilled and nothing else: all
\* native fields, max_iso_packets and the buffer's pointer, length, capacity
\* and bytes are those of the filled phase; the published length is the
\* previous fill's, zero when that fill was empty.
C19_ClearChangesPhaseOnly ==
    [][pre'.op = "clear" /\ phase # "Unfilled" =>
          /\ phase' = "Unfilled"
          /\ inner'.handle = inner.handle
          /\ inner'.buffer = inner.buffer
          /\ inner'.max_iso_packets = inner.max_iso_packets
          /\ inner'.handle.length = ExpectedLength(last)
          /\ inner'.handle.buffer = inner'.buffer.ptr]_vars

\* reached: Unfilled by clear() after a two-byte bulk write, the descriptor
\* still pointing at those two bytes
C19_Witness ==
    /\ phase = "Unfilled"
    /\ pre.op = "clear"
    /\ last.op = "fill_bulk_write"
    /\ inner.handle.length = 2
    /\ inner.handle.buffer \in HeapAddrs
    /\ Vec_slice(inner.buffer) = <<170, 187>>

----------------------------------------------------------------------------
(* Serialization of control setups on their own: every setup the            *)
(* constructors accept, written into an 8-byte region of arbitrary content *)

Recipients == {"Device", "Interface", "Endpoint", "Other"}
RequestTypes == {"Standard", "Class", "Vendor"}
RequestCodes == {0, 1, 255}
WordInputs == {0, 255, 256, 4660, U16_MAX}
ReadDataLengths == {0, 2, 255, 256, U16_MAX - CONTROL_SETUP_SIZE, U16_MAX}
WriteDataLengths == {0, 2, 255, 256, 4660}
Regions == {Zeros(CONTROL_SETUP_SIZE), [i \in 1..CONTROL_SETUP_SIZE |-> JUNK]}

AllControlReadSetups ==
    ValsOf({ControlReadSetup_new(rc, ty, rq, v, ix, n) :
                rc \in Recipients, ty \in RequestTypes, rq \in RequestCodes,
                v \in WordInputs, ix \in WordInputs, n \in ReadDataLengths})

AllControlWriteSetups ==
    ValsOf({ControlWriteSetup_new(rc, ty, rq, v, ix, Pattern(n)) :
                rc \in Recipients, ty \in RequestTypes, rq \in RequestCodes,
                v \in WordInputs, ix \in WordInputs, n \in WriteDataLengths})

SetupInit ==
    /\ phase = "Unfilled"
    /\ inner = Internals_new_unfilled(0)
    /\ last = NoFill
    /\ pre = [op |-> "new", prevop |-> "new", resize |-> "same",
              fits |-> TRUE, moved |-> FALSE, stale |-> FALSE,
              overwrote |-> FALSE]
    /\ \/ \E s \in AllControlReadSetups : setup = [kind |-> "read", s |-> s]
       \/ \E s \in AllControlWriteSetups : setup = [kind |-> "write", s |-> s]
    /\ packet = <<>>
    /\ call = NoCall
    /\ result = NoResult

ControlReadSetup_serialize(region) ==
    /\ setup.kind = "read"
    /\ packet = <<>>
    /\ packet' = ControlReadSetup_write_setup_packet(setup.s, region)
    /\ UNCHANGED <<phase, inner, last, pre, setup, call, result>>

ControlWriteSetup_serialize(region) ==
    /\ setup.kind = "write"
    /\ packet = <<>>
    /\ packet' = ControlWriteSetup_write_setup_packet(setup.s, region)
    /\ UNCHANGED <<phase, inner, last, pre, setup, call, result>>

SetupNext ==
    \/ \E r \in Regions : ControlReadSetup_serialize(r)
    \/ \E r \in Regions : ControlWriteSetup_serialize(r)

SetupSpec == SetupInit /\ [][SetupNext]_vars

\* parsing the 8 header bytes, 16-bit fields low byte first
DecodeHeader(p) ==
    [request_type |-> p[1], request |-> p[2],
     value |-> p[3] + 256 * p[4],
     index |-> p[5] + 256 * p[6],
     data_length |-> p[7] + 256 * p[8]]

\* the payload length of a setup: the response length asked for (read) or
\* the number of payload bytes (write), header excluded
PayloadLength(st) ==
    IF st.kind = "read" THEN st.s.data_length ELSE Len(st.s.data)

\* C10: the 8 bytes write_setup_packet leaves decode, little-endian, to the
\* setup's request-type byte, request code, value, index and data length.
C10_HeaderRoundTrip ==
    packet # <<>> =>
        /\ Len(packet) = CONTROL_SETUP_SIZE
        /\ \A i \in 1..Len(packet) : packet[i] \in 0..255
        /\ DecodeHeader(packet) =
              [request_type |-> setup.s.request_type,
               request |-> setup.s.request,
               value |-> setup.s.value,
               index |-> setup.s.index,
               data_length |-> PayloadLength(setup)]

\* reached: a write setup with value 0x1234 and a 256-byte payload, serialized
C10_Witness ==
    /\ packet # <<>>
    /\ setup.kind = "write"
    /\ setup.s.value = 4660
    /\ Len(setup.s.data) = 256
    /\ packet[3] = 52 /\ packet[4] = 18
    /\ packet[7] = 0 /\ packet[8] = 1

----------------------------------------------------------------------------
(* ValueSpec: the validated value types on their own.  One constructor is  *)
(* picked with its argument (call) and applied once (result).              *)

\* usize arguments around 2^16, 2^31 and 2^32
UsizeInputs ==
    {Wide(0), Wide(1), Wide(64), Wide(U16_MAX), Wide(U16_MAX + 1),
     Wide(C_INT_MAX - 1), Wide(C_INT_MAX),
     [hi |-> 32768, lo |-> 0], [hi |-> 32768, lo |-> 1],
     C_UINT_MAX, [hi |-> 65536, lo |-> 0], [hi |-> C_INT_MAX, lo |-> U16_MAX]}

\* slices given to WriteData: their length and, where the model can hold
\* them, their bytes
SliceInputs ==
    {[len |-> Wide(k), real |-> TRUE, data |-> Pattern(k)] : k \in {0, 1, 3, 300}}
        \cup {[len |-> n, real |-> FALSE, data |-> <<>>] :
                  n \in {u \in UsizeInputs : u.hi >= 32767}}

\* Duration { secs, nanos }, around 1 ms and around 2^32 - 1 ms
DurationInputs ==
    [secs : {0, 1, 2147483, 4294966, 4294967, 4294968, C_INT_MAX},
     nanos : {0, 1, 999999, 1000000, 1999999, 295000000, 295999999,
              296000000, 999999999}]

MillisInputs == {Wide(0), Wide(1), Wide(1000), C_UINT_MAX}

ReadSetupInputs ==
    [recipient : {"Device", "Endpoint"}, rtype : {"Vendor"}, request : {6},
     value : {4660}, index : {0},
     data_length : {0, 1, U16_MAX - CONTROL_SETUP_SIZE - 1,
                    U16_MAX - CONTROL_SETUP_SIZE,
                    U16_MAX - CONTROL_SETUP_SIZE + 1, U16_MAX - 1, U16_MAX}]

WriteSetupInputs ==
    [recipient : {"Device", "Endpoint"}, rtype : {"Vendor"}, request : {9},
     value : {4660}, index : {0},
     data : {Pattern(k) : k \in {0, 1, U16_MAX - CONTROL_SETUP_SIZE,
                                 U16_MAX - CONTROL_SETUP_SIZE + 1,
                                 U16_MAX, U16_MAX + 1, U16_MAX + 9}}]

Calls ==
    [fn : {"ReadEndpoint", "WriteEndpoint"}, arg : 0..255]
        \cup [fn : {"ReadLength"}, arg : UsizeInputs]
        \cup [fn : {"WriteData"}, arg : SliceInputs]
        \cup [fn : {"Timeout"}, arg : DurationInputs]
        \cup [fn : {"Timeout_from_millis"}, arg : MillisInputs]
        \cup [fn : {"Timeout_none"}, arg : {0}]
        \cup [fn : {"ControlReadSetup"}, arg : ReadSetupInputs]
        \cup [fn : {"ControlWriteSetup"}, arg : WriteSetupInputs]

ValueInit ==
    /\ phase = "Unfilled"
    /\ inner = Internals_new_unfilled(0)
    /\ last = NoFill
    /\ pre = [op |-> "new", prevop |-> "new", resize |-> "same",
              fits |-> TRUE, moved |-> FALSE, stale |-> FALSE,
              overwrote |-> FALSE]
    /\ setup = NoSetup
    /\ packet = <<>>
    /\ call \in Calls
    /\ result = NoResult

\* each action applies the constructor call names, once
ReadEndpoint_construct ==
    /\ call.fn = "ReadEndpoint"
    /\ result = NoResult
    /\ result' = ReadEndpoint_try_from(call.arg)
    /\ UNCHANGED <<phase, inner, last, pre, setup, packet, call>>

WriteEndpoint_construct ==
    /\ call.fn = "WriteEndpoint"
    /\ result = NoResult
    /\ result' = WriteEndpoint_try_from(call.arg)
    /\ UNCHANGED <<phase, inner, last, pre, setup, packet, call>>

ReadLength_construct ==
    /\ call.fn = "ReadLength"
    /\ result = NoResult
    /\ result' = ReadLength_try_from(call.arg)
    /\ UNCHANGED <<phase, inner, last, pre, setup, packet, call>>

\* a slice the model holds goes through try_from itself; of a larger one
\* only the length is given
WriteData_construct ==
    /\ call.fn = "WriteData"
    /\ result = NoResult
    /\ result' = IF call.arg.real THEN WriteData_try_from(call.arg.data)
                 ELSE WriteData_try_from_len(call.arg.len, call.arg.data)
    /\ UNCHANGED <<phase, inner, last, pre, setup, packet, call>>

Timeout_construct ==
    /\ call.fn = "Timeout"
    /\ result = NoResult
    /\ result' = Timeout_try_from(call.arg)
    /\ UNCHANGED <<phase, inner, last, pre, setup, packet, call>>

\* from_millis and none cannot fail: their value is recorded as Ok
Timeout_from_millis_construct ==
    /\ call.fn = "Timeout_from_millis"
    /\ result = NoResult
    /\ result' = Ok(Timeout_from_millis(call.arg))
    /\ UNCHANGED <<phase, inner, last, pre, setup, packet, call>>

Timeout_none_construct ==
    /\ call.fn = "Timeout_none"
    /\ result = NoResult
    /\ result' = Ok(Timeout_none)
    /\ UNCHANGED <<phase, inner, last, pre, setup, packet, call>>

ControlReadSetup_construct ==
    /\ call.fn = "ControlReadSetup"
    /\ result = NoResult
    /\ result' = ControlReadSetup_new(
                     call.arg.recipient, call.arg.rtype, call.arg.request,
                     call.arg.value, call.arg.index, call.arg.data_length)
    /\ UNCHANGED <<phase, inner, last, pre, setup, packet, call>>

ControlWriteSetup_construct ==
    /\ call.fn = "ControlWriteSetup"
    /\ result = NoResult
    /\ result' = ControlWriteSetup_new(
                     call.arg.recipient, call.arg.rtype, call.arg.request,
                     call.arg.value, call.arg.index, call.arg.data)
    /\ UNCHANGED <<phase, inner, last, pre, setup, packet, call>>

ValueNext ==
    \/ ReadEndpoint_construct
    \/ WriteEndpoint_construct
    \/ ReadLength_construct
    \/ WriteData_construct
    \/ Timeout_construct
    \/ Timeout_from_millis_construct
    \/ Timeout_none_construct
    \/ ControlReadSetup_construct
    \/ ControlWriteSetup_construct

ValueSpec == ValueInit /\ [][ValueNext]_vars

Called(fn) == call.fn = fn /\ result # NoResult

\* C11: a control setup is refused with TooBig exactly when its data length
\* exceeds 65527 (8 + data length does not fit 16 bits); a constructed setup
\* has a total length of at most 65535 and its 16-bit header field holds the
\* whole data length.
C11_ControlLengthBound ==
    /\ Called("ControlReadSetup") =>
          IF call.arg.data_length > 65527
          THEN result = Err("TooBig")
          ELSE /\ result.ok
               /\ result.val.data_length = call.arg.data_length
               /\ ControlReadSetup_total_length(result.val) <= 65535
               /\ DecodeHeader(ControlReadSetup_write_setup_packet(
                      result.val, Zeros(8))).data_length
                    = call.arg.data_length
    /\ Called("ControlWriteSetup") =>
          IF Len(call.arg.data) > 65527
          THEN result = Err("TooBig")
          ELSE /\ result.ok
               /\ ControlWriteSetup_data_length(result.val)
                    = Len(call.arg.data)
               /\ ControlWriteSetup_total_length(result.val) <= 65535
               /\ DecodeHeader(ControlWriteSetup_write_setup_packet(
                      result.val, Zeros(8))).data_length
                    = Len(call.arg.data)

\* reached: a read setup asked for 65535 data bytes and refused
C11_Witness ==
    /\ Called("ControlReadSetup")
    /\ call.arg.data_length = 65535
    /\ result = Err("TooBig")

\* C12: ReadEndpoint accepts exactly the bytes with bit 7 set and
\* WriteEndpoint exactly those with bit 7 clear, each refusing the others
\* with InvalidParam; as_u8 gives the byte back; every byte is accepted by
\* exactly one of the two.
C12_EndpointDirection ==
    /\ Called("ReadEndpoint") =>
          /\ result = IF call.arg >= 128 THEN Ok(call.arg)
                      ELSE Err("InvalidParam")
          /\ result.ok => ReadEndpoint_as_u8(result.val) = call.arg
          /\ result.ok # WriteEndpoint_try_from(call.arg).ok
    /\ Called("WriteEndpoint") =>
          /\ result = IF call.arg < 128 THEN Ok(call.arg)
                      ELSE Err("InvalidParam")
          /\ result.ok => WriteEndpoint_as_u8(result.val) = call.arg
          /\ result.ok # ReadEndpoint_try_from(call.arg).ok

\* reached: WriteEndpoint refused 0x81
C12_Witness ==
    /\ Called("WriteEndpoint")
    /\ call.arg = 129
    /\ result = Err("InvalidParam")

\* C13: a length below 2^31 is accepted by ReadLength and by WriteData and
\* comes back unchanged and non-negative from as_usize, as_c_int, length and
\* length_as_c_int; a length of 2^31 or more is refused with TooBig.
C13_LengthRoundTrip ==
    /\ Called("ReadLength") =>
          IF call.arg.hi < 32768
          THEN /\ result.ok
               /\ ReadLength_as_usize(result.val) = call.arg
               /\ ReadLength_as_c_int(result.val) >= 0
               /\ Wide(ReadLength_as_c_int(result.val)) = call.arg
          ELSE result = Err("TooBig")
    /\ Called("WriteData") =>
          IF call.arg.len.hi < 32768
          THEN /\ result.ok
               /\ call.arg.real =>
                     /\ result.val = call.arg.data
                     /\ Wide(WriteData_length(result.val)) = call.arg.len
                     /\ WriteData_length_as_c_int(result.val) >= 0
                     /\ Wide(WriteData_length_as_c_int(result.val))
                          = call.arg.len
          ELSE result = Err("TooBig")

\* reached: ReadLength accepted 2^31 - 1 and gives it back
C13_Witness ==
    /\ Called("ReadLength")
    /\ call.arg = [hi |-> 32767, lo |-> 65535]
    /\ result.ok
    /\ ReadLength_as_c_int(result.val) = C_INT_MAX

\* the whole milliseconds of a Duration of at most 2^32 - 1 ms as a wide
\* number: counted up from 0, up from 2147483000 = 32767 * 65536 + 64888, or
\* down from 2^32 - 1 = 4294967 s 295 ms, whichever stays below 2^31
MillisOf(d) ==
    LET ms == d.nanos \div 1000000
    IN IF d.secs <= 2147482 THEN Wide(d.secs * 1000 + ms)
       ELSE IF d.secs <= 2147484
       THEN LET r == 64888 + (d.secs - 2147483) * 1000 + ms
            IN [hi |-> 32767 + r \div 65536, lo |-> r % 65536]
       ELSE LET short == Wide((4294967 - d.secs) * 1000 + 295 - ms)
            IN [hi |-> 65535 - short.hi, lo |-> 65535 - short.lo]

\* the Duration is at most 2^32 - 1 ms = 4294967 s 295 ms
FitsCUint(d) ==
    d.secs < 4294967 \/ (d.secs = 4294967 /\ d.nanos < 296000000)

\* C14: a Timeout from a Duration is refused with InvalidParam exactly when
\* the whole milliseconds exceed 2^32 - 1; otherwise its native value is that
\* millisecond count.  Timeout::none() is the value 0.
C14_TimeoutFromDuration ==
    /\ Called("Timeout") =>
          IF FitsCUint(call.arg)
          THEN /\ result.ok
               /\ Timeout_as_c_uint(result.val) = MillisOf(call.arg)
          ELSE result = Err("InvalidParam")
    /\ Called("Timeout_none") =>
          result.ok /\ Timeout_as_c_uint(result.val) = [hi |-> 0, lo |-> 0]

\* reached: 4294967.296 s, one millisecond too many, refused
C14_Witness ==
    /\ Called("Timeout")
    /\ call.arg = [secs |-> 4294967, nanos |-> 296000000]
    /\ result = Err("InvalidParam")

\* C20: a Timeout from a Duration under one millisecond, or from_millis(0),
\* has the native value 0 and is Timeout::none(): set_timeout writes the same
\* field for both.  From one millisecond on the value differs from none.
C20_SubMillisecondIsNone ==
    /\ Called("Timeout") /\ call.arg.secs = 0 =>
          IF call.arg.nanos < 1000000
          THEN /\ result = Ok(Timeout_none)
               /\ Timeout_as_c_uint(result.val) = Wide(0)
               /\ set_timeout(inner, result.val)
                    = set_timeout(inner, Timeout_none)
          ELSE /\ result.ok
               /\ result.val # Timeout_none
               /\ set_timeout(inner, result.val).handle.timeout
                    # set_timeout(inner, Timeout_none).handle.timeout
    /\ Called("Timeout_from_millis") =>
          (call.arg = Wide(0)) = (result.val = Timeout_none)

\* reached: 999999 ns became the value 0
C20_Witness ==
    /\ Called("Timeout")
    /\ call.arg = [secs |-> 0, nanos |-> 999999]
    /\ result.ok
    /\ Timeout_as_c_uint(result.val) = Wide(0)

====
